---- MODULE Spec2Model ----
(***************************************************************************)
(* Model of the AWS Config custom rule IAM_POLICY_REQUIRED                 *)
(* (config_custom_ruleset_lambda_fucntions/IAM_POLICY_REQUIRED).           *)
(*                                                                         *)
(* Python str values are sequences of one-character strings, so that the   *)
(* regular expressions, split() and rsplit() of the rule are computed      *)
(* character by character.  Python exceptions are values                   *)
(* [kind |-> "raised", exc |-> <class name>].                              *)
(***************************************************************************)
EXTENDS Integers, Sequences, FiniteSets, TLC

VARIABLES
    pc,                    \* position of the running invocation / function
    event,                 \* lambda_handler's event argument
    valid_rule_parameters, \* result of evaluate_parameters in the handler
    configuration_item,    \* resolved configuration item, or None
    managed_policies,      \* has_policy_attached's accumulating list
    group_idx,             \* index in groupList of the group being fetched
    page_no,               \* pages of the current lookup fetched so far
    compliance_result,     \* evaluate_compliance's result in the handler
    latest_evaluations,    \* argument of clean_up_old_evaluations
    old_eval_list,         \* clean_up_old_evaluations' gathered prior results
    evaluations,           \* the sequence handed to put_evaluations / returned
    calls,                 \* collaborator calls made so far, in order
    trace,                 \* rule functions entered so far, in order
    put_calls,             \* Evaluations argument of every put_evaluations call
    result,                \* what the invocation / function ended with
    rule_parameters,       \* evaluate_parameters' argument (parameter check)
    params_result          \* evaluate_parameters' outcome (parameter check)

vars == <<pc, event, valid_rule_parameters, configuration_item, managed_policies,
          group_idx, page_no, compliance_result, latest_evaluations, old_eval_list,
          evaluations, calls, trace, put_calls, result, rule_parameters,
          params_result>>

\* ------------------------------------------------------------------------
\* Bounds of the model
\* ------------------------------------------------------------------------

\* longest policy name / exception sub-list content drawn for the parameter check
MaxNameLen == 2
\* most pages one paginated lookup returns
MaxPages == 2
\* most current verdicts handed to clean_up_old_evaluations
MaxLatest == 2

\* ------------------------------------------------------------------------
\* Python values and str helpers
\* ------------------------------------------------------------------------

None == [py |-> "None"]

Raised(exc) == [kind |-> "raised", exc |-> exc]

Range(s) == {s[i] : i \in 1..Len(s)}

\* dict.get(key, default)
Get(d, k, default) == IF k \in DOMAIN d THEN d[k] ELSE default

Lower == {"a","b","c","d","e","f","g","h","i","j","k","l","m",
          "n","o","p","q","r","s","t","u","v","w","x","y","z"}
Upper == {"A","B","C","D","E","F","G","H","I","J","K","L","M",
          "N","O","P","Q","R","S","T","U","V","W","X","Y","Z"}
Digits == {"0","1","2","3","4","5","6","7","8","9"}
Whitespace == {" "}

\* position after the literal lit matched at position i of s; 0 when it does
\* not match (or when i is already 0)
MatchLit(s, i, lit) ==
    IF i = 0 THEN 0
    ELSE IF i + Len(lit) - 1 <= Len(s) /\ SubSeq(s, i, i + Len(lit) - 1) = lit
         THEN i + Len(lit)
         ELSE 0

\* position after the longest run of characters of cls starting at i
RECURSIVE RunEnd(_, _, _)
RunEnd(s, i, cls) ==
    IF i <= Len(s) /\ s[i] \in cls THEN RunEnd(s, i + 1, cls) ELSE i

\* str.split(sep) for a one-character separator
RECURSIVE PySplit(_, _)
PySplit(s, sep) ==
    IF \E k \in 1..Len(s) : s[k] = sep
    THEN LET k == CHOOSE k \in 1..Len(s) : s[k] = sep /\ \A j \in 1..(k - 1) : s[j] # sep
         IN  <<SubSeq(s, 1, k - 1)>> \o PySplit(SubSeq(s, k + 1, Len(s)), sep)
    ELSE <<s>>

\* str.replace(old, '') for a one-character old
RECURSIVE PyRemove(_, _)
PyRemove(s, ch) ==
    IF s = <<>> THEN <<>>
    ELSE (IF Head(s) = ch THEN <<>> ELSE <<Head(s)>>) \o PyRemove(Tail(s), ch)

\* ------------------------------------------------------------------------
\* Parameter validation
\* ------------------------------------------------------------------------

L_arn == <<"a","r","n",":">>
L_aws == <<"a","w","s">>
L_iam == <<":","i","a","m",":",":">>
L_policy == <<":","p","o","l","i","c","y","/">>
L_users == <<"u","s","e","r","s">>
L_roles == <<"r","o","l","e","s">>

\* [a-zA-Z-] of the partition segment
PartitionChars == Lower \cup Upper \cup {"-"}
\* [a-zA-Z0-9-_\/] of the policy path and name
PolicyNameChars == Lower \cup Upper \cup Digits \cup {"-", "_", "/"}
\* [a-zA-Z0-9-_,] of an exception sub-list
EntityListChars == Lower \cup Upper \cup Digits \cup {"-", "_", ","}

\* position after the account segment (aws|\d{12}) matched at i, or 0
MatchAccount(s, i) ==
    IF i = 0 THEN 0
    ELSE IF MatchLit(s, i, L_aws) # 0 THEN MatchLit(s, i, L_aws)
    ELSE IF i + 11 <= Len(s) /\ \A j \in i..(i + 11) : s[j] \in Digits THEN i + 12
    ELSE 0

\* position after "arn:(aws[a-zA-Z-]*)?:iam::(aws|\d{12}):policy\/" matched at
\* the start of arn, or 0.  The optional group and the star are greedy; giving
\* characters back cannot help, because what follows them is ':', which is not
\* in the class, so the greedy choice is the only one that can succeed.
ArnPrefixEnd(arn) ==
    LET p1 == MatchLit(arn, 1, L_arn)
        p2 == IF MatchLit(arn, p1, L_aws) # 0
              THEN RunEnd(arn, MatchLit(arn, p1, L_aws), PartitionChars)
              ELSE p1
        p3 == MatchLit(arn, p2, L_iam)
        p4 == MatchAccount(arn, p3)
    IN  MatchLit(arn, p4, L_policy)

\* pattern.match(arn): the pattern is anchored at the start only, and
\* [a-zA-Z0-9-_\/]+ needs one character of the class
is_valid_arn(arn) ==
    LET p == ArnPrefixEnd(arn)
    IN  p # 0 /\ p <= Len(arn) /\ arn[p] \in PolicyNameChars

\* position after "{Type}:\s?\[([a-zA-Z0-9-_,]+)\]" matched at i, or 0; the
\* group is SubSeq(s, start, end - 2)
EntityMatchEnd(entity_type, s, i) ==
    LET p1 == MatchLit(s, MatchLit(s, i, entity_type), <<":">>)
        p2 == IF p1 # 0 /\ p1 <= Len(s) /\ s[p1] \in Whitespace THEN p1 + 1 ELSE p1
        p3 == MatchLit(s, p2, <<"[">>)
        p4 == IF p3 = 0 THEN 0 ELSE RunEnd(s, p3, EntityListChars)
    IN  IF p3 # 0 /\ p4 > p3 THEN MatchLit(s, p4, <<"]">>) ELSE 0

EntityGroupStart(entity_type, s, i) ==
    LET p1 == MatchLit(s, MatchLit(s, i, entity_type), <<":">>)
        p2 == IF p1 # 0 /\ p1 <= Len(s) /\ s[p1] \in Whitespace THEN p1 + 1 ELSE p1
    IN  MatchLit(s, p2, <<"[">>)

\* pattern.search: the leftmost position where the pattern matches
extract_entities_from_exception_list(entity_type, exception_list) ==
    LET hits == {i \in 1..Len(exception_list) :
                    EntityMatchEnd(entity_type, exception_list, i) # 0}
    IN  IF hits = {} THEN <<>>
        ELSE LET i == CHOOSE i \in hits : \A j \in hits : i <= j
                 g == SubSeq(exception_list,
                             EntityGroupStart(entity_type, exception_list, i),
                             EntityMatchEnd(entity_type, exception_list, i) - 2)
             IN  PySplit(PyRemove(g, " "), ",")

\* the validated parameters, or the ValueError raised
evaluate_parameters(rp) ==
    LET policy_arns == PySplit(Get(rp, "policyArns", <<>>), ",")
        exception_list == Get(rp, "exceptionList", <<>>)
    IN  IF ~ \A k \in 1..Len(policy_arns) : is_valid_arn(policy_arns[k])
        THEN Raised("ValueError")
        ELSE [kind |-> "valid",
              policyArns |-> policy_arns,
              exceptionList |->
                  [users |-> extract_entities_from_exception_list(L_users, exception_list),
                   roles |-> extract_entities_from_exception_list(L_roles, exception_list)]]

\* ------------------------------------------------------------------------
\* Evaluations and error payloads
\* ------------------------------------------------------------------------

DEFAULT_RESOURCE_TYPE == "AWS::IAM::Role"

\* annotation "" stands for the default None: "if annotation:" skips both
WithAnnotation(eval, annotation) ==
    IF annotation = "" THEN eval
    ELSE [Annotation |-> annotation,
          ComplianceResourceType |-> eval.ComplianceResourceType,
          ComplianceResourceId |-> eval.ComplianceResourceId,
          ComplianceType |-> eval.ComplianceType,
          OrderingTimestamp |-> eval.OrderingTimestamp]

build_evaluation(resource_id, compliance_type, ev, resource_type, annotation) ==
    WithAnnotation([ComplianceResourceType |-> resource_type,
                    ComplianceResourceId |-> resource_id,
                    ComplianceType |-> compliance_type,
                    OrderingTimestamp |-> ev.invokingEvent.notificationCreationTime],
                   annotation)

build_evaluation_from_config_item(ci, compliance_type, annotation) ==
    WithAnnotation([ComplianceResourceType |-> ci.resourceType,
                    ComplianceResourceId |-> ci.resourceId,
                    ComplianceType |-> compliance_type,
                    OrderingTimestamp |-> ci.configurationItemCaptureTime],
                   annotation)

build_error_response(internalErrorMessage, internalErrorDetails, customerErrorCode, customerErrorMessage) ==
    [kind |-> "error",
     internalErrorMessage |-> internalErrorMessage,
     internalErrorDetails |-> internalErrorDetails,
     customerErrorMessage |-> customerErrorMessage,
     customerErrorCode |-> customerErrorCode]

build_internal_error_response(internalErrorMessage, internalErrorDetails) ==
    build_error_response(internalErrorMessage, internalErrorDetails,
                         "InternalError", "InternalError")

build_parameters_value_error_response(ex) ==
    build_error_response("Parameter value is invalid",
                         "An ValueError was raised during the validation of the Parameter value",
                         "InvalidParameterValueException", ex)

\* error codes a botocore ClientError of a collaborator carries in the model
ClientErrorCodes == {"AccessDeniedException", "InternalError"}

\* is_internal_error on those codes: the code starts with '5', or contains
\* 'InternalError' or 'ServiceError'
is_internal_error(code) == code = "InternalError"

\* the handler's except clauses for a ClientError with this code
ClientErrorResponse(code) ==
    IF is_internal_error(code)
    THEN build_internal_error_response("Unexpected error while completing API request",
                                       "str(ex)")
    ELSE build_error_response("Customer error while making API request", "str(ex)",
                              code, "ex.response.Error.Message")

\* ------------------------------------------------------------------------
\* Compliance decision
\* ------------------------------------------------------------------------

L_service_role == <<"a","w","s","-","s","e","r","v","i","c","e","-","r","o","l","e">>

\* a mutation of should_ignore_config_item: the name is looked up in both lists
should_ignore_any_list(config_item, ignored_roles, ignored_users) ==
    IF config_item.resourceName \in Range(ignored_roles) \cup Range(ignored_users)
    THEN "True"
    ELSE LET parts == PySplit(config_item.ARN, "/")
         IN  IF Len(parts) < 2 THEN "IndexError"
             ELSE IF parts[2] = L_service_role THEN "True" ELSE "False"

\* "True", "False", or "IndexError" when the ARN has no '/' and the operand
\* that indexes rsplit("/")[1] is reached ('or' evaluates left to right and
\* stops at the first true operand)
should_ignore_config_item(config_item, ignored_roles, ignored_users) ==
    IF config_item.resourceType = "AWS::IAM::Role"
       /\ config_item.resourceName \in Range(ignored_roles)
    THEN "True"
    ELSE IF config_item.resourceType = "AWS::IAM::User"
            /\ config_item.resourceName \in Range(ignored_users)
    THEN "True"
    ELSE LET parts == PySplit(config_item.ARN, "/")
         IN  IF Len(parts) < 2 THEN "IndexError"
             ELSE IF parts[2] = L_service_role THEN "True" ELSE "False"

\* the list of policy ARNs; TypeError when attachedManagedPolicies is absent:
\* .get() gives None and the comprehension iterates over it
get_attached_policies(item) ==
    IF "attachedManagedPolicies" \in DOMAIN item.configuration
    THEN LET l == item.configuration.attachedManagedPolicies
         IN  [raised |-> FALSE, list |-> [i \in 1..Len(l) |-> l[i].policyArn]]
    ELSE [raised |-> TRUE, list |-> <<>>]

\* a mutation of list_contains_all: any() instead of all()
list_contains_any(source_list, items) ==
    \E i \in 1..Len(items) : items[i] \in Range(source_list)

list_contains_all(source_list, items) ==
    \A i \in 1..Len(items) : items[i] \in Range(source_list)

\* a mutation of PageFold: the policies are gathered and never checked
PageFoldNoCheck(managed, page, policy_arns) ==
    [managed |-> managed \o [i \in 1..Len(page) |-> page[i].PolicyArn], found |-> FALSE]

\* the inner loop of has_policy_attached over the policies of one page:
\* append, check, stop at the first success
RECURSIVE PageFold(_, _, _)
PageFold(managed, page, policy_arns) ==
    IF page = <<>> THEN [managed |-> managed, found |-> FALSE]
    ELSE LET m == Append(managed, Head(page).PolicyArn)
         IN  IF list_contains_all(m, policy_arns)
             THEN [managed |-> m, found |-> TRUE]
             ELSE PageFold(m, Tail(page), policy_arns)

\* ------------------------------------------------------------------------
\* Inputs of an invocation
\* ------------------------------------------------------------------------

Digits12 == <<"1","2","3","4","5","6","7","8","9","0","1","2">>
ACCOUNT_ID == "123456789012"

\* the two managed policies of the model: arn:aws:iam::aws:policy/A and .../B
P1 == L_arn \o L_aws \o L_iam \o L_aws \o L_policy \o <<"A">>
P2 == L_arn \o L_aws \o L_iam \o L_aws \o L_policy \o <<"B">>
\* arn:aws:iam::aws:role/A, which is no policy ARN
NotAPolicy == L_arn \o L_aws \o L_iam \o L_aws \o <<":","r","o","l","e","/","A">>

\* users:[a] and roles:[a]
ExceptUsersA == L_users \o <<":","[","a","]">>
ExceptRolesA == L_roles \o <<":","[","a","]">>

\* the ruleParameters of an event, parsed; None when the event has no such key
RuleParameterChoices ==
    { [policyArns |-> P1, exceptionList |-> ExceptRolesA],
      [policyArns |-> P1 \o <<",">> \o P2, exceptionList |-> ExceptUsersA],
      [policyArns |-> NotAPolicy, exceptionList |-> ExceptUsersA],
      None }

ResourceTypes == {"AWS::IAM::User", "AWS::IAM::Role", "AWS::IAM::Group"}
\* "A" differs from the listed name "a" in case only
ResourceNames == {<<"a">>, <<"A">>}
Statuses == {"OK", "ResourceDiscovered", "ResourceDeleted"}
ArnForms == {"plain", "service-linked", "no-slash"}
AllGroups == <<"g1", "g2", "g3">>
\* most groups a user belongs to
MaxGroups == 2
GroupLists == {SubSeq(AllGroups, 1, k) : k \in 0..(IF MaxGroups < 3 THEN MaxGroups ELSE 3)}

ResourceIdOf(name) == IF name = <<"a">> THEN "id_a" ELSE "id_A"

KindSegment(type) ==
    IF type = "AWS::IAM::User" THEN <<"u","s","e","r">>
    ELSE IF type = "AWS::IAM::Role" THEN <<"r","o","l","e">>
    ELSE <<"g","r","o","u","p">>

ArnOf(type, name, form) ==
    LET head == L_arn \o L_aws \o L_iam \o Digits12 \o <<":">> \o KindSegment(type)
    IN  IF form = "no-slash" THEN head
        ELSE IF form = "service-linked"
             THEN head \o <<"/">> \o L_service_role \o <<"/">> \o name
             ELSE head \o <<"/">> \o name

AttachedChoices ==
    { <<>>, <<[policyArn |-> P1]>>, <<[policyArn |-> P2]>>,
      <<[policyArn |-> P2], [policyArn |-> P1]>> }

\* the configuration of a principal; a record may lack attachedManagedPolicies
Configurations(type) ==
    LET groups == IF type = "AWS::IAM::User" THEN GroupLists ELSE {<<>>}
    IN  {[attachedManagedPolicies |-> a, groupList |-> g] : a \in AttachedChoices, g \in groups}
        \cup {[groupList |-> g] : g \in groups}

\* configuration items as a change notification carries them
ConfigItems ==
    UNION { { [resourceType |-> t, resourceId |-> ResourceIdOf(n), resourceName |-> n,
               ARN |-> ArnOf(t, n, f), awsAccountId |-> ACCOUNT_ID,
               configurationItemStatus |-> st,
               configurationItemCaptureTime |-> "t_capture",
               configuration |-> c] : c \in Configurations(t) }
            : t \in ResourceTypes, n \in ResourceNames, f \in ArnForms, st \in Statuses }

\* configuration items as get_resource_config_history returns them
ApiItem(ci) ==
    [resourceType |-> ci.resourceType, resourceId |-> ci.resourceId,
     resourceName |-> ci.resourceName, arn |-> ci.ARN, accountId |-> ci.awsAccountId,
     configurationItemStatus |-> ci.configurationItemStatus,
     configurationItemCaptureTime |-> ci.configurationItemCaptureTime,
     configuration |-> ci.configuration]

\* the renamed keys are added beside the API's own; the configuration is held
\* parsed, and the hash and version keys, which the rule never reads, are left out
convert_api_configuration(item) ==
    [resourceType |-> item.resourceType, resourceId |-> item.resourceId,
     resourceName |-> item.resourceName, arn |-> item.arn, accountId |-> item.accountId,
     configurationItemStatus |-> item.configurationItemStatus,
     configurationItemCaptureTime |-> item.configurationItemCaptureTime,
     configuration |-> item.configuration,
     awsAccountId |-> item.accountId, ARN |-> item.arn]

Events ==
    LET base(inv, rp, left) ==
            [invokingEvent |-> inv, ruleParameters |-> rp, eventLeftScope |-> left,
             accountId |-> ACCOUNT_ID, resultToken |-> "token",
             configRuleName |-> "IAM_POLICY_REQUIRED"]
        invs ==
            {[messageType |-> "ConfigurationItemChangeNotification",
              notificationCreationTime |-> "t_notify",
              configurationItem |-> ci] : ci \in ConfigItems}
            \cup {[messageType |-> "OversizedConfigurationItemChangeNotification",
                   notificationCreationTime |-> "t_notify",
                   configurationItemSummary |->
                       [resourceType |-> t, resourceId |-> ResourceIdOf(n),
                        configurationItemCaptureTime |-> "t_capture"]]
                  : t \in ResourceTypes, n \in ResourceNames}
            \cup {[messageType |-> m, notificationCreationTime |-> "t_notify"]
                  : m \in {"ScheduledNotification", "SomethingElse"}}
    IN  {base(inv, rp, left) : inv \in invs, rp \in RuleParameterChoices, left \in BOOLEAN}

\* ------------------------------------------------------------------------
\* lambda_handler, cut at its collaborator calls.  Each piece of code between
\* two calls is a function from the state record to the state record.
\* ------------------------------------------------------------------------

St == [pc |-> pc, event |-> event, valid_rule_parameters |-> valid_rule_parameters,
       configuration_item |-> configuration_item, managed_policies |-> managed_policies,
       group_idx |-> group_idx, page_no |-> page_no,
       compliance_result |-> compliance_result,
       latest_evaluations |-> latest_evaluations, old_eval_list |-> old_eval_list,
       evaluations |-> evaluations, calls |-> calls, trace |-> trace,
       put_calls |-> put_calls, result |-> result]

Set(s) ==
    /\ pc' = s.pc
    /\ event' = s.event
    /\ valid_rule_parameters' = s.valid_rule_parameters
    /\ configuration_item' = s.configuration_item
    /\ managed_policies' = s.managed_policies
    /\ group_idx' = s.group_idx
    /\ page_no' = s.page_no
    /\ compliance_result' = s.compliance_result
    /\ latest_evaluations' = s.latest_evaluations
    /\ old_eval_list' = s.old_eval_list
    /\ evaluations' = s.evaluations
    /\ calls' = s.calls
    /\ trace' = s.trace
    /\ put_calls' = s.put_calls
    /\ result' = s.result

\* a collaborator call: its operation and argument, for a paginated lookup the
\* page it returned and whether that page carried a continuation marker, and
\* whether the call returned (ok) or raised
Paged(op, arg, page, more) == [op |-> op, arg |-> arg, page |-> page, more |-> more, ok |-> TRUE]

\* the call c raised instead of returning
Failed(c) == [c EXCEPT !.ok = FALSE]

Call(op, arg) == Paged(op, arg, <<>>, FALSE)

\* the invocation ends by returning value
Return(s, value) == [s EXCEPT !.pc = "done", !.result = value]

\* the invocation ends with an exception leaving lambda_handler
Propagate(s, exc) == [s EXCEPT !.pc = "done", !.result = Raised(exc)]

\* truth value of a compliance_result
Truthy(cr) ==
    IF cr = None THEN FALSE
    ELSE IF cr.tag = "list" THEN cr.value # <<>>
    ELSE TRUE

EvaluationFields ==
    {"ComplianceResourceType", "ComplianceResourceId", "ComplianceType", "OrderingTimestamp"}

\* lines 450-482: the evaluations to report, up to the next collaborator call
\* (the prior-results lookup of clean_up_old_evaluations, or put_evaluations)
AssembleEvaluations(s) ==
    LET cr == s.compliance_result
        ci == s.configuration_item
    IN  IF ~ Truthy(cr)
        THEN [s EXCEPT !.latest_evaluations =
                           <<build_evaluation(s.event.accountId, "NOT_APPLICABLE", s.event,
                                              "AWS::::Account", "")>>,
                       !.old_eval_list = <<>>, !.page_no = 0, !.pc = "cleanup"]
        ELSE IF cr.tag = "str"
        THEN [s EXCEPT !.evaluations =
                           IF ci # None
                           THEN <<build_evaluation_from_config_item(ci, cr.value, "")>>
                           ELSE <<build_evaluation(s.event.accountId, cr.value, s.event,
                                                   DEFAULT_RESOURCE_TYPE, "")>>,
                       !.pc = "put"]
        ELSE IF cr.tag = "list"
        THEN [s EXCEPT !.latest_evaluations =
                           SelectSeq(cr.value, LAMBDA e : EvaluationFields \subseteq DOMAIN e),
                       !.old_eval_list = <<>>, !.page_no = 0, !.pc = "cleanup"]
        ELSE [s EXCEPT !.evaluations =
                           IF EvaluationFields \subseteq DOMAIN cr.value
                           THEN <<cr.value>> ELSE <<>>,
                       !.pc = "put"]

\* a mutation of Decided: evaluate_compliance returns the evaluation in a list
DecidedAsList(s, compliance_type, annotation) ==
    AssembleEvaluations(
        [s EXCEPT !.compliance_result =
            [tag |-> "list",
             value |-> <<build_evaluation_from_config_item(s.configuration_item,
                                                           compliance_type, annotation)>>]])

\* evaluate_compliance returned this evaluation dictionary
Decided(s, compliance_type, annotation) ==
    AssembleEvaluations(
        [s EXCEPT !.compliance_result =
            [tag |-> "dict",
             value |-> build_evaluation_from_config_item(s.configuration_item,
                                                         compliance_type, annotation)]])

\* a mutation of is_applicable: eventLeftScope is not looked at
is_applicable_status_only(ci, ev) ==
    IF ci = None THEN TRUE
    ELSE ci.configurationItemStatus \in {"OK", "ResourceDiscovered"}

is_applicable(ci, ev) ==
    IF ci = None THEN TRUE
    ELSE /\ ci.configurationItemStatus \in {"OK", "ResourceDiscovered"}
         /\ ~ ev.eventLeftScope

\* has_policy_attached up to its first group lookup
has_policy_attached(s0) ==
    LET s == [s0 EXCEPT !.trace = Append(@, "has_policy_attached")]
        ci == s.configuration_item
        policy_arns == s.valid_rule_parameters.policyArns
        attached == get_attached_policies(ci)
        groups == Get(ci.configuration, "groupList", <<>>)
    IN  IF ci.resourceType = "AWS::IAM::User"
        THEN IF attached.raised THEN Propagate(s, "TypeError")
             ELSE IF list_contains_all(attached.list, policy_arns)
             THEN Decided([s EXCEPT !.managed_policies = attached.list],
                          "COMPLIANT", "All expected policies attached")
             ELSE LET s1 == [s EXCEPT !.managed_policies = attached.list,
                                      !.calls = Append(@, Call("boto3.client", "iam"))]
                  IN  IF groups = <<>>
                      THEN Decided(s1, "NON_COMPLIANT", "IAM entity missing policies")
                      ELSE [s1 EXCEPT !.group_idx = 1, !.page_no = 0, !.pc = "groups"]
        ELSE IF ci.resourceType = "AWS::IAM::Role"
        THEN IF attached.raised THEN Propagate(s, "TypeError")
             ELSE IF list_contains_all(attached.list, policy_arns)
             THEN Decided(s, "COMPLIANT", "All expected policies attached")
             ELSE Decided(s, "NON_COMPLIANT", "IAM entity missing policies")
        ELSE \* ValueError('Unable to handle resource type'), caught at line 447
             Return(s, build_internal_error_response("Unable to handle resource type",
                                                     "Unable to handle resource type"))

\* evaluate_compliance up to its first collaborator call; on the scheduled
\* path configuration_item is None and subscripting it raises TypeError
evaluate_compliance(s0) ==
    LET s == [s0 EXCEPT !.trace = @ \o <<"evaluate_compliance", "should_ignore_config_item">>]
        ci == s.configuration_item
        exception_list == s.valid_rule_parameters.exceptionList
    IN  IF ci = None THEN Propagate(s, "TypeError")
        ELSE LET ignore == should_ignore_config_item(ci, exception_list.roles,
                                                     exception_list.users)
             IN  IF ignore = "IndexError" THEN Propagate(s, "IndexError")
                 ELSE IF ignore = "True"
                 THEN Decided(s, "COMPLIANT", "Ignored IAM entity")
                 ELSE has_policy_attached(s)

\* lines 437-440, with the configuration item resolved
EvaluateResolved(s) ==
    IF is_applicable(s.configuration_item, s.event)
    THEN evaluate_compliance(s)
    ELSE AssembleEvaluations([s EXCEPT !.compliance_result =
                                           [tag |-> "str", value |-> "NOT_APPLICABLE"]])

\* a mutation of HandlerEntry: the Config client is created before the
\* parameters are validated
HandlerEntryClientFirst(s0, ev) ==
    LET s == [s0 EXCEPT !.event = ev,
                        !.calls = Append(@, Call("boto3.client", "config"))]
        rp == IF ev.ruleParameters = None THEN [k \in {} |-> <<>>] ELSE ev.ruleParameters
        valid == evaluate_parameters(rp)
        m == ev.invokingEvent.messageType
    IN  IF valid.kind = "raised"
        THEN Return(s, build_parameters_value_error_response("str(ex)"))
        ELSE LET s1 == [s EXCEPT !.valid_rule_parameters = valid]
             IN  IF m \notin {"ConfigurationItemChangeNotification", "ScheduledNotification",
                              "OversizedConfigurationItemChangeNotification"}
                 THEN Return(s1, build_internal_error_response("Unexpected message type",
                                                               "str(invoking_event)"))
                 ELSE IF m = "OversizedConfigurationItemChangeNotification"
                 THEN [s1 EXCEPT !.pc = "history"]
                 ELSE IF m = "ScheduledNotification"
                 THEN EvaluateResolved([s1 EXCEPT !.configuration_item = None])
                 ELSE EvaluateResolved(
                          [s1 EXCEPT !.configuration_item = ev.invokingEvent.configurationItem])

\* lines 417-436: from entry to the history lookup, or past it when there is none
HandlerEntry(s0, ev) ==
    LET s == [s0 EXCEPT !.event = ev]
        rp == IF ev.ruleParameters = None THEN [k \in {} |-> <<>>] ELSE ev.ruleParameters
        valid == evaluate_parameters(rp)
        m == ev.invokingEvent.messageType
    IN  IF valid.kind = "raised"
        THEN Return(s, build_parameters_value_error_response("str(ex)"))
        ELSE LET s1 == [s EXCEPT !.valid_rule_parameters = valid,
                                 !.calls = Append(@, Call("boto3.client", "config"))]
             IN  IF m \notin {"ConfigurationItemChangeNotification", "ScheduledNotification",
                              "OversizedConfigurationItemChangeNotification"}
                 THEN Return(s1, build_internal_error_response("Unexpected message type",
                                                               "str(invoking_event)"))
                 ELSE IF m = "OversizedConfigurationItemChangeNotification"
                 THEN [s1 EXCEPT !.pc = "history"]
                 ELSE IF m = "ScheduledNotification"
                 THEN EvaluateResolved([s1 EXCEPT !.configuration_item = None])
                 ELSE EvaluateResolved(
                          [s1 EXCEPT !.configuration_item = ev.invokingEvent.configurationItem])

\* ------------------------------------------------------------------------
\* The invocation as a state machine
\* ------------------------------------------------------------------------

\* nothing has run yet
Blank ==
    /\ valid_rule_parameters = None
    /\ configuration_item = None
    /\ managed_policies = <<>>
    /\ group_idx = 0
    /\ page_no = 0
    /\ compliance_result = None
    /\ old_eval_list = <<>>
    /\ evaluations = <<>>
    /\ calls = <<>>
    /\ trace = <<>>
    /\ put_calls = <<>>
    /\ result = None
    /\ params_result = None

Init ==
    /\ pc = "idle"
    /\ event = None
    /\ latest_evaluations = <<>>
    /\ rule_parameters = None
    /\ Blank

\* AWS Config invokes lambda_handler(event, context)
Invoke ==
    /\ pc = "idle"
    /\ \E ev \in Events : Set(HandlerEntry(St, ev))
    /\ UNCHANGED <<rule_parameters, params_result>>

HistoryCall ==
    Call("get_resource_config_history", event.invokingEvent.configurationItemSummary.resourceId)

\* get_configuration: the history lookup returns the item of the summary's resource
HistoryReturn ==
    /\ pc = "history"
    /\ \E ci \in ConfigItems :
          /\ ci.resourceType = event.invokingEvent.configurationItemSummary.resourceType
          /\ ci.resourceId = event.invokingEvent.configurationItemSummary.resourceId
          /\ Set(EvaluateResolved(
                 [St EXCEPT !.calls = Append(@, HistoryCall),
                            !.configuration_item = convert_api_configuration(ApiItem(ci))]))
    /\ UNCHANGED <<rule_parameters, params_result>>

\* the history lookup returns no item: result['configurationItems'][0] raises
HistoryEmpty ==
    /\ pc = "history"
    /\ Set(Propagate([St EXCEPT !.calls = Append(@, HistoryCall)], "IndexError"))
    /\ UNCHANGED <<rule_parameters, params_result>>

\* the history lookup raises a ClientError, caught at line 443
HistoryRaise ==
    /\ pc = "history"
    /\ \E code \in ClientErrorCodes :
          Set(Return([St EXCEPT !.calls = Append(@, Failed(HistoryCall))],
                     ClientErrorResponse(code)))
    /\ UNCHANGED <<rule_parameters, params_result>>

\* pages of list_attached_group_policies
PageChoices ==
    { <<>>, <<[PolicyArn |-> P1]>>, <<[PolicyArn |-> P2]>>,
      <<[PolicyArn |-> P1], [PolicyArn |-> P2]>> }

GroupCall(page, more) ==
    Paged("list_attached_group_policies",
          configuration_item.configuration.groupList[group_idx], page, more)

\* has_policy_attached, lines 139-146: the paginator fetches the next page of
\* the current group; more says whether the page carries a continuation marker
GroupPageReturn ==
    /\ pc = "groups"
    /\ \E page \in PageChoices, more \in BOOLEAN :
          /\ more => page_no + 1 < MaxPages
          /\ LET s == [St EXCEPT !.calls = Append(@, GroupCall(page, more))]
                 f == PageFold(managed_policies, page, valid_rule_parameters.policyArns)
                 s1 == [s EXCEPT !.managed_policies = f.managed]
                 groups == configuration_item.configuration.groupList
             IN  Set(IF f.found
                     THEN Decided(s1, "COMPLIANT", "All expected policies attached")
                     ELSE IF more
                     THEN [s1 EXCEPT !.page_no = @ + 1]
                     ELSE IF group_idx < Len(groups)
                     THEN [s1 EXCEPT !.group_idx = @ + 1, !.page_no = 0]
                     ELSE Decided(s1, "NON_COMPLIANT", "IAM entity missing policies"))
    /\ UNCHANGED <<rule_parameters, params_result>>

\* a mutation of GroupPageRaise: the failed page fetch is swallowed and the
\* principal is decided on the policies gathered so far
GroupPageRaiseSwallowed ==
    /\ pc = "groups"
    /\ Set(Decided([St EXCEPT !.calls = Append(@, Failed(GroupCall(<<>>, FALSE)))],
                   "NON_COMPLIANT", "IAM entity missing policies"))
    /\ UNCHANGED <<rule_parameters, params_result>>

\* a page fetch raises a ClientError, caught at line 443
GroupPageRaise ==
    /\ pc = "groups"
    /\ \E code \in ClientErrorCodes :
          Set(Return([St EXCEPT !.calls = Append(@, Failed(GroupCall(<<>>, FALSE)))],
                     ClientErrorResponse(code)))
    /\ UNCHANGED <<rule_parameters, params_result>>

PutCall(s) ==
    [s EXCEPT !.calls = Append(@, Call("put_evaluations", s.event.resultToken)),
              !.put_calls = Append(@, s.evaluations)]

\* lines 484-492: put_evaluations accepts the evaluations and they are returned
PutReturn ==
    /\ pc = "put"
    /\ Set(Return(PutCall(St), [kind |-> "evaluations", value |-> evaluations]))
    /\ UNCHANGED <<rule_parameters, params_result>>

\* put_evaluations raises a ClientError; the call is outside every try block
PutRaise ==
    /\ pc = "put"
    /\ LET s == PutCall(St)
       IN  Set(Propagate([s EXCEPT !.calls[Len(s.calls)] = Failed(@)], "ClientError"))
    /\ UNCHANGED <<rule_parameters, params_result>>

Next ==
    \/ Invoke
    \/ HistoryReturn
    \/ HistoryEmpty
    \/ HistoryRaise
    \/ GroupPageReturn
    \/ GroupPageRaise
    \/ PutReturn
    \/ PutRaise

Spec == Init /\ [][Next]_vars

\* ------------------------------------------------------------------------
\* evaluate_parameters on its own, over bounded parameter texts
\* ------------------------------------------------------------------------

SeqsUpTo(alphabet, n) == UNION {[1..k -> alphabet] : k \in 0..n}

ArnTokens ==
    { L_arn \o part \o L_iam \o acct \o res \o name :
        part \in {L_aws, L_aws \o <<"-","c","n">>, <<>>, <<"x">>},
        acct \in {L_aws, Digits12, Tail(Digits12), Digits12 \o <<"3">>},
        res \in {L_policy, <<":","r","o","l","e","/">>},
        name \in SeqsUpTo({"P", "_", "/", "!"}, MaxNameLen) }

PolicyArnsTexts ==
    ArnTokens
    \cup {P1 \o <<",">> \o t : t \in ArnTokens}
    \cup {t \o <<",">> \o P1 : t \in ArnTokens}
    \cup {<<>>}

ExceptionListTexts ==
    LET subs == { kw \o <<":">> \o sp \o <<"[">> \o content \o <<"]">> :
                    kw \in {L_users, L_roles}, sp \in {<<>>, <<" ">>},
                    content \in SeqsUpTo({"a", "-", ",", "!", " "}, MaxNameLen) }
    IN  subs \cup {ExceptUsersA \o <<",">> \o t : t \in subs} \cup {<<>>}

ParameterInputs ==
    {[policyArns |-> t] : t \in PolicyArnsTexts}
    \cup {[policyArns |-> P1 \o <<",">> \o P2, exceptionList |-> e] : e \in ExceptionListTexts}
    \cup {[policyArns |-> NotAPolicy, exceptionList |-> e] : e \in ExceptionListTexts}
    \cup {[exceptionList |-> ExceptUsersA], [k \in {} |-> <<>>]}

InitParams ==
    /\ pc = "params"
    /\ event = None
    /\ latest_evaluations = <<>>
    /\ rule_parameters \in ParameterInputs
    /\ Blank

EvaluateParameters ==
    /\ pc = "params"
    /\ params_result' = evaluate_parameters(rule_parameters)
    /\ pc' = "params_done"
    /\ UNCHANGED <<event, valid_rule_parameters, configuration_item, managed_policies,
                   group_idx, page_no, compliance_result, latest_evaluations,
                   old_eval_list, evaluations, calls, trace, put_calls, result,
                   rule_parameters>>

NextParams == EvaluateParameters

SpecParams == InitParams /\ [][NextParams]_vars

\* ------------------------------------------------------------------------
\* clean_up_old_evaluations, as lambda_handler calls it at lines 455 and 471,
\* over bounded current verdicts and prior results
\* ------------------------------------------------------------------------

\* most prior results on one page of get_compliance_details_by_config_rule
MaxPageLen == 2

PriorIds == {"id_a", "id_b", "id_c"}

OldResult(id) ==
    [EvaluationResultIdentifier |->
         [EvaluationResultQualifier |->
              [ConfigRuleName |-> "IAM_POLICY_REQUIRED",
               ResourceType |-> "AWS::IAM::User", ResourceId |-> id]],
     ComplianceType |-> "NON_COMPLIANT"]

OldResourceId(old_eval) ==
    old_eval.EvaluationResultIdentifier.EvaluationResultQualifier.ResourceId

\* pages of prior results: AWS Config keeps one result per resource of a rule,
\* so no identifier comes twice, on a page or across pages
OldPages(gathered) ==
    { pg \in SeqsUpTo({OldResult(id) : id \in PriorIds}, MaxPageLen) :
        /\ \A i, j \in 1..Len(pg) : i # j => pg[i] # pg[j]
        /\ \A i \in 1..Len(pg) : pg[i] \notin Range(gathered) }

LatestChoices ==
    SeqsUpTo({ [ComplianceResourceType |-> "AWS::IAM::User", ComplianceResourceId |-> id,
                ComplianceType |-> c, OrderingTimestamp |-> "t_capture"]
               : id \in {"id_a", "id_b"}, c \in {"COMPLIANT", "NON_COMPLIANT"} }
             \cup {[ComplianceResourceType |-> "AWS::::Account",
                    ComplianceResourceId |-> ACCOUNT_ID,
                    ComplianceType |-> "NOT_APPLICABLE", OrderingTimestamp |-> "t_notify"]},
             MaxLatest)

ScheduledEvent ==
    [invokingEvent |-> [messageType |-> "ScheduledNotification",
                        notificationCreationTime |-> "t_notify"],
     ruleParameters |-> [policyArns |-> P1], eventLeftScope |-> FALSE,
     accountId |-> ACCOUNT_ID, resultToken |-> "token",
     configRuleName |-> "IAM_POLICY_REQUIRED"]

\* a mutation of CleanedEvaluations: a retraction for every prior result
CleanedEvaluationsRetractAll(latest, old_list, ev) ==
    [i \in 1..Len(old_list) |->
        build_evaluation(OldResourceId(old_list[i]), "NOT_APPLICABLE", ev,
                         DEFAULT_RESOURCE_TYPE, "")]
    \o latest

\* lines 405-414: the retractions, then the latest evaluations
CleanedEvaluations(latest, old_list, ev) ==
    LET stale == SelectSeq(old_list,
                     LAMBDA o : ~ \E i \in 1..Len(latest) :
                                    OldResourceId(o) = latest[i].ComplianceResourceId)
    IN  [i \in 1..Len(stale) |->
            build_evaluation(OldResourceId(stale[i]), "NOT_APPLICABLE", ev,
                             DEFAULT_RESOURCE_TYPE, "")]
        \o latest

CleanupCall(page, more) ==
    Paged("get_compliance_details_by_config_rule", event.configRuleName, page, more)

\* lines 385-403: the lookup returns a page; with NextToken the loop asks for
\* the next one, without it the function computes its result and returns
CleanupPageReturn ==
    /\ pc = "cleanup"
    /\ \E page \in OldPages(old_eval_list), more \in BOOLEAN :
          /\ more => page_no + 1 < MaxPages
          /\ LET s == [St EXCEPT !.calls = Append(@, CleanupCall(page, more)),
                                 !.old_eval_list = @ \o page,
                                 !.page_no = @ + 1]
             IN  Set(IF more THEN s
                     ELSE [s EXCEPT !.evaluations =
                                        CleanedEvaluations(s.latest_evaluations,
                                                           s.old_eval_list, s.event),
                                    !.pc = "put"])
    /\ UNCHANGED <<rule_parameters, params_result>>

\* the lookup raises a ClientError; the call is outside every try block
CleanupPageRaise ==
    /\ pc = "cleanup"
    /\ Set(Propagate([St EXCEPT !.calls = Append(@, Failed(CleanupCall(<<>>, FALSE)))],
                     "ClientError"))
    /\ UNCHANGED <<rule_parameters, params_result>>

InitCleanup ==
    /\ pc = "cleanup"
    /\ event = ScheduledEvent
    /\ latest_evaluations \in LatestChoices
    /\ rule_parameters = None
    /\ Blank

NextCleanup ==
    \/ CleanupPageReturn
    \/ CleanupPageRaise
    \/ PutReturn
    \/ PutRaise

SpecCleanup == InitCleanup /\ [][NextCleanup]_vars

\* ------------------------------------------------------------------------
\* lambda_handler from line 450 on, over every shape of compliance_result its
\* branches tell apart: nothing, a string, a list of evaluations, a dictionary
\* ------------------------------------------------------------------------

\* a principal a change notification carries
ReportItem ==
    CHOOSE ci \in ConfigItems :
        /\ ci.resourceType = "AWS::IAM::User"
        /\ ci.resourceName = <<"a">>
        /\ ci.ARN = ArnOf("AWS::IAM::User", <<"a">>, "plain")
        /\ ci.configurationItemStatus = "OK"
        /\ ci.configuration = [attachedManagedPolicies |-> <<>>, groupList |-> <<>>]

ChangeEvent ==
    [invokingEvent |-> [messageType |-> "ConfigurationItemChangeNotification",
                        notificationCreationTime |-> "t_notify",
                        configurationItem |-> ReportItem],
     ruleParameters |-> [policyArns |-> P1], eventLeftScope |-> FALSE,
     accountId |-> ACCOUNT_ID, resultToken |-> "token",
     configRuleName |-> "IAM_POLICY_REQUIRED"]

\* an evaluation without its OrderingTimestamp
IncompleteEvaluation ==
    [ComplianceResourceType |-> "AWS::IAM::User", ComplianceResourceId |-> "id_b",
     ComplianceType |-> "COMPLIANT"]

\* lists of evaluations, some with an evaluation the filter of line 466 drops
ListResults ==
    {[tag |-> "list", value |-> l] : l \in LatestChoices}
    \cup {[tag |-> "list", value |-> Append(l, IncompleteEvaluation)]
          : l \in {m \in LatestChoices : Len(m) = 1}}

DictResults ==
    {[tag |-> "dict", value |-> e]
        : e \in {IncompleteEvaluation,
                 build_evaluation_from_config_item(ReportItem, "COMPLIANT", "")}}

\* lines 450-482: the evaluations are assembled from compliance_result
Report ==
    /\ pc = "report"
    /\ Set(AssembleEvaluations(St))
    /\ UNCHANGED <<rule_parameters, params_result>>

InitReport ==
    /\ pc = "report"
    /\ \/ event = ChangeEvent /\ configuration_item = ReportItem
       \/ event = ScheduledEvent /\ configuration_item = None
    /\ \/ compliance_result = None
       \/ compliance_result = [tag |-> "str", value |-> "NOT_APPLICABLE"]
       \/ compliance_result \in ListResults
       \/ compliance_result \in DictResults
    /\ valid_rule_parameters = None
    /\ managed_policies = <<>>
    /\ group_idx = 0
    /\ page_no = 0
    /\ latest_evaluations = <<>>
    /\ old_eval_list = <<>>
    /\ evaluations = <<>>
    /\ calls = <<>>
    /\ trace = <<>>
    /\ put_calls = <<>>
    /\ result = None
    /\ rule_parameters = None
    /\ params_result = None

\* an invocation from its entry, or from line 450 with any decision result
NextHandler ==
    \/ Invoke
    \/ HistoryReturn
    \/ HistoryEmpty
    \/ HistoryRaise
    \/ GroupPageReturn
    \/ GroupPageRaise
    \/ Report
    \/ CleanupPageReturn
    \/ CleanupPageRaise
    \/ PutReturn
    \/ PutRaise

SpecHandler == (Init \/ InitReport) /\ [][NextHandler]_vars

\* ------------------------------------------------------------------------
\* Properties
\* ------------------------------------------------------------------------

Started == event # None
Resolved == Started /\ configuration_item # None
Ended == pc = "done"
MessageType == event.invokingEvent.messageType

\* the invocation's rule parameters as lambda_handler reads them
EventRuleParameters ==
    IF event.ruleParameters = None THEN [k \in {} |-> <<>>] ELSE event.ruleParameters

GroupCalls == {i \in 1..Len(calls) : calls[i].op = "list_attached_group_policies"}

Entered(f) == \E i \in 1..Len(trace) : trace[i] = f

\* C1: a scheduled-sweep invocation with valid rule parameters ends by
\* returning the submitted sequence, which holds exactly one verdict for the
\* account placeholder (AWS::::Account, the account id, NOT_APPLICABLE) and
\* otherwise only NOT_APPLICABLE retractions of previously reported principals.
C1_ScheduledSweepReportsPlaceholder ==
    (Ended /\ MessageType = "ScheduledNotification"
           /\ evaluate_parameters(EventRuleParameters).kind = "valid")
    => /\ result.kind = "evaluations"
       /\ put_calls = <<result.value>>
       /\ Cardinality({i \in 1..Len(result.value) :
              /\ result.value[i].ComplianceResourceType = "AWS::::Account"
              /\ result.value[i].ComplianceResourceId = event.accountId}) = 1
       /\ \A i \in 1..Len(result.value) :
              /\ result.value[i].ComplianceType = "NOT_APPLICABLE"
              /\ \/ result.value[i].ComplianceResourceType = "AWS::::Account"
                 \/ \E j \in 1..Len(old_eval_list) :
                        OldResourceId(old_eval_list[j]) = result.value[i].ComplianceResourceId

\* C2: every invocation ends by returning the submitted verdicts or a
\* structured error payload; no exception leaves lambda_handler.
C2_NoExceptionPropagates ==
    Ended => result.kind \in {"evaluations", "error"}

\* the separators of an exception sub-list
EntitySeparators == {",", " "}
\* [A-Za-z0-9_-]
EntityNameChars == Lower \cup Upper \cup Digits \cup {"-", "_"}

\* the text holds a sub-list  {Type}:[ ... ]  with a name that has a character
\* outside [A-Za-z0-9_-]
HasBadEntityName(text) ==
    \E kw \in {L_users, L_roles}, i \in 1..Len(text) :
       LET start == EntityGroupStart(kw, text, i)
       IN  /\ start # 0
           /\ \E close \in start..Len(text) :
                 /\ text[close] = "]"
                 /\ \A k \in start..(close - 1) : text[k] # "]"
                 /\ \E k \in start..(close - 1) :
                        text[k] \notin EntityNameChars \cup EntitySeparators

\* C3: an exceptionList whose users:[...] or roles:[...] sub-list has a name
\* with a character outside [A-Za-z0-9_-] makes evaluate_parameters raise
\* ValueError.
C3_BadExceptionNameRejected ==
    (pc = "params_done" /\ HasBadEntityName(Get(rule_parameters, "exceptionList", <<>>)))
    => params_result = Raised("ValueError")

\* the whole token is  arn:<partition>:iam::<aws or 12 digits>:policy/<name>
\* with a non-empty name over alphanumerics, hyphen, underscore and slash
WellFormedPolicyArn(token) ==
    LET p == ArnPrefixEnd(token)
    IN  /\ p # 0
        /\ p <= Len(token)
        /\ \A k \in p..Len(token) : token[k] \in PolicyNameChars

\* C4: a policyArns value with a malformed comma-separated token, or an empty
\* one, makes evaluate_parameters raise ValueError.
C4_MalformedPolicyArnRejected ==
    (pc = "params_done"
     /\ LET tokens == PySplit(Get(rule_parameters, "policyArns", <<>>), ",")
        IN  \E k \in 1..Len(tokens) : ~ WellFormedPolicyArn(tokens[k]))
    => params_result = Raised("ValueError")

\* C5: when the validation of the rule parameters fails, the invocation has
\* ended with the customer configuration-error payload and has made no
\* collaborator call at all: no client, no lookup, no put_evaluations.
C5_InvalidParametersContactNothing ==
    (Started /\ evaluate_parameters(EventRuleParameters).kind = "raised")
    => /\ Ended
       /\ result.kind = "error"
       /\ result.customerErrorCode = "InvalidParameterValueException"
       /\ calls = <<>>
       /\ put_calls = <<>>
       /\ trace = <<>>

C5_Witness ==
    /\ Ended
    /\ result.kind = "error"
    /\ result.customerErrorCode = "InvalidParameterValueException"
    /\ event.ruleParameters # None
    /\ MessageType = "OversizedConfigurationItemChangeNotification"

\* the required policies of the invocation
Required == Range(valid_rule_parameters.policyArns)

\* the policies attached to the principal itself
DirectPolicies ==
    {configuration_item.configuration.attachedManagedPolicies[i].policyArn :
        i \in 1..Len(configuration_item.configuration.attachedManagedPolicies)}

\* the policies the group lookups of the invocation returned
GroupPolicies ==
    UNION {{calls[i].page[k].PolicyArn : k \in 1..Len(calls[i].page)} : i \in GroupCalls}

IsUser == configuration_item.resourceType = "AWS::IAM::User"
IsRole == configuration_item.resourceType = "AWS::IAM::Role"

\* the ARN has the reserved path segment /aws-service-role/
IsServiceLinked ==
    LET seg == <<"/">> \o L_service_role \o <<"/">>
        arn == configuration_item.ARN
    IN  \E i \in 1..Len(arn) :
           i + Len(seg) - 1 <= Len(arn) /\ SubSeq(arn, i, i + Len(seg) - 1) = seg

\* the principal's name is in the exception sub-list of its own kind
ExemptByName ==
    \/ IsUser /\ configuration_item.resourceName
                    \in Range(valid_rule_parameters.exceptionList.users)
    \/ IsRole /\ configuration_item.resourceName
                    \in Range(valid_rule_parameters.exceptionList.roles)

HasVerdict == compliance_result # None /\ compliance_result.tag = "dict"
Verdict == compliance_result.value

\* C6: the verdict of a non-exempt User or Role is COMPLIANT exactly when every
\* required policy is among its directly attached policies (Role) or among
\* those and the attached policies of its groups (User), whatever the order;
\* otherwise it is NON_COMPLIANT, and then every group was read to its last page.
C6_CompliantIffAllRequiredAttached ==
    (Resolved /\ HasVerdict /\ (IsUser \/ IsRole) /\ ~ IsServiceLinked /\ ~ ExemptByName)
    => LET effective == IF IsUser THEN DirectPolicies \cup GroupPolicies
                        ELSE DirectPolicies
       IN  /\ Verdict.ComplianceType \in {"COMPLIANT", "NON_COMPLIANT"}
           /\ Verdict.ComplianceType = "COMPLIANT" <=> Required \subseteq effective
           /\ (IsUser /\ Verdict.ComplianceType = "NON_COMPLIANT")
              => \A g \in Range(configuration_item.configuration.groupList) :
                    \E i \in GroupCalls : calls[i].arg = g /\ ~ calls[i].more

C6_Witness ==
    /\ Resolved /\ HasVerdict /\ IsUser /\ ~ IsServiceLinked /\ ~ ExemptByName
    /\ Verdict.ComplianceType = "COMPLIANT"
    /\ Cardinality(Required) = 2
    /\ DirectPolicies = {}
    /\ Cardinality(GroupCalls) = 2
    /\ \A i \in GroupCalls : Len(calls[i].page) = 1

\* C7: the exemption branch wins first.  A principal with the service-linked
\* path in its ARN, or whose name is in the exception sub-list of its own kind,
\* gets COMPLIANT with the exemption reason whatever is attached to it,
\* without has_policy_attached running and without any group lookup; a
\* principal that is neither never gets the exemption verdict, so a name
\* listed under the other kind only does not exempt it.
C7_ExemptionWinsFirst ==
    (Resolved /\ Entered("should_ignore_config_item"))
    => /\ (IsServiceLinked \/ ExemptByName)
          => /\ HasVerdict
             /\ Verdict.ComplianceType = "COMPLIANT"
             /\ Verdict.Annotation = "Ignored IAM entity"
             /\ ~ Entered("has_policy_attached")
             /\ GroupCalls = {}
       /\ (~ IsServiceLinked /\ ~ ExemptByName /\ HasVerdict)
          => Verdict.Annotation # "Ignored IAM entity"

C7_Witness ==
    /\ Ended /\ Resolved /\ IsUser /\ ExemptByName /\ ~ IsServiceLinked
    /\ "attachedManagedPolicies" \in DOMAIN configuration_item.configuration
    /\ DirectPolicies = {}
    /\ configuration_item.configuration.groupList # <<>>
    /\ result.kind = "evaluations"
    /\ result.value = <<Verdict>>
    /\ Verdict.Annotation = "Ignored IAM entity"

NotApplicableFor(ci) ==
    [ComplianceResourceType |-> ci.resourceType,
     ComplianceResourceId |-> ci.resourceId,
     ComplianceType |-> "NOT_APPLICABLE",
     OrderingTimestamp |-> ci.configurationItemCaptureTime]

OutOfScope ==
    \/ configuration_item.configurationItemStatus = "ResourceDeleted"
    \/ event.eventLeftScope

\* C8: when the resolved principal of a targeted or oversized change is deleted
\* or the event left the scope, the evaluations are the single NOT_APPLICABLE
\* verdict of that principal, put_evaluations is called once, with them, and
\* neither the exemption check nor has_policy_attached ran and no group was
\* looked up.
C8_DeletedIsNotApplicable ==
    (Resolved /\ MessageType # "ScheduledNotification" /\ OutOfScope)
    => /\ trace = <<>>
       /\ GroupCalls = {}
       /\ compliance_result = [tag |-> "str", value |-> "NOT_APPLICABLE"]
       /\ evaluations = <<NotApplicableFor(configuration_item)>>
       /\ pc \in {"put", "done"}
       /\ pc = "put" => put_calls = <<>>
       /\ pc = "done" => put_calls = <<evaluations>>

C8_Witness ==
    /\ Ended /\ Resolved /\ OutOfScope
    /\ MessageType = "OversizedConfigurationItemChangeNotification"
    /\ IsUser /\ ExemptByName
    /\ "attachedManagedPolicies" \in DOMAIN configuration_item.configuration
    /\ DirectPolicies = {P1, P2}
    /\ result.kind = "evaluations"
    /\ result.value = <<NotApplicableFor(configuration_item)>>
    /\ put_calls = <<result.value>>

CleanupCalls == {i \in 1..Len(calls) : calls[i].op = "get_compliance_details_by_config_rule"}

\* the identifiers on the pages the prior-results lookup returned
PriorReported ==
    UNION {{OldResourceId(calls[i].page[k]) : k \in 1..Len(calls[i].page)} : i \in CleanupCalls}

CurrentReported ==
    {latest_evaluations[i].ComplianceResourceId : i \in 1..Len(latest_evaluations)}

CleanupReturned == pc = "put" \/ put_calls # <<>>

\* C9: clean_up_old_evaluations returns one NOT_APPLICABLE retraction for every
\* prior identifier without a current verdict, then the current verdicts
\* unchanged and in order: |prior \ current| + |current| evaluations.
C9_CleanupRetractsStaleOnly ==
    CleanupReturned
    => LET stale == PriorReported \ CurrentReported
           n == Cardinality(stale)
       IN  /\ Len(evaluations) = n + Len(latest_evaluations)
           /\ SubSeq(evaluations, n + 1, Len(evaluations)) = latest_evaluations
           /\ {evaluations[i].ComplianceResourceId : i \in 1..n} = stale
           /\ \A i \in 1..n : evaluations[i].ComplianceType = "NOT_APPLICABLE"

C9_Witness ==
    /\ pc = "put"
    /\ Cardinality(CleanupCalls) = 2
    /\ PriorReported = {"id_a", "id_b", "id_c"}
    /\ CurrentReported = {"id_b", "id_c"} \/ CurrentReported = {"id_a", "id_b"}
    /\ Len(latest_evaluations) = 2
    /\ Len(evaluations) = 3
    /\ evaluations[1].ComplianceType = "NOT_APPLICABLE"

HasPath == \E i \in 1..Len(configuration_item.ARN) : configuration_item.ARN[i] = "/"

\* C10: an applicable principal whose resource type is neither AWS::IAM::User
\* nor AWS::IAM::Role gets no verdict: the invocation ends with the
\* internal-error payload and nothing is submitted.  (Stated for the ARNs that
\* have a '/', on which the exemption test itself does not raise.)
C10_UnsupportedTypeIsFatal ==
    (Resolved /\ ~ IsUser /\ ~ IsRole /\ ~ OutOfScope /\ HasPath
              /\ configuration_item.configurationItemStatus \in {"OK", "ResourceDiscovered"})
    => /\ Ended
       /\ result.kind = "error"
       /\ result.customerErrorCode = "InternalError"
       /\ compliance_result = None
       /\ put_calls = <<>>

\* the lookups an invocation makes before it submits
Lookups ==
    {i \in 1..Len(calls) :
        calls[i].op \in {"get_resource_config_history", "list_attached_group_policies",
                         "get_compliance_details_by_config_rule"}}

FailedLookups == {i \in Lookups : ~ calls[i].ok}

PutIndexes == {i \in 1..Len(calls) : calls[i].op = "put_evaluations"}

\* every prior result the lookup returned, in page order
PriorGathered == UNION {Range(calls[i].page) : i \in CleanupCalls}

\* C11: put_evaluations is called at most once per invocation.  After a lookup
\* (history, group-policy page, prior-results page) has failed the invocation
\* makes no further call and ends without a submission.  A submission is the
\* last call of the invocation, every lookup before it returned, a prior-results
\* lookup was read to its last page, and the submitted sequence is the whole
\* assembled one: with a reconciliation, every latest verdict and a retraction
\* for every gathered prior result that has no latest verdict.
C11_FailedLookupSubmitsNothing ==
    /\ Len(put_calls) <= 1
    /\ Cardinality(PutIndexes) = Len(put_calls)
    /\ \A i \in FailedLookups :
          /\ i = Len(calls)
          /\ put_calls = <<>>
          /\ Ended
          /\ result.kind # "evaluations"
    /\ \A p \in PutIndexes :
          /\ p = Len(calls)
          /\ FailedLookups = {}
          /\ put_calls[1] = evaluations
          /\ CleanupCalls # {} =>
                /\ \E i \in CleanupCalls :
                      ~ calls[i].more /\ \A j \in CleanupCalls : j <= i
                /\ Range(latest_evaluations) \subseteq Range(put_calls[1])
                /\ \A o \in PriorGathered :
                      OldResourceId(o) \notin
                          {latest_evaluations[k].ComplianceResourceId :
                              k \in 1..Len(latest_evaluations)}
                      => \E k \in 1..Len(put_calls[1]) :
                            /\ put_calls[1][k].ComplianceResourceId = OldResourceId(o)
                            /\ put_calls[1][k].ComplianceType = "NOT_APPLICABLE"

\* a second page fetch failed after the first returned: nothing was submitted
C11_Witness ==
    /\ Ended
    /\ \E i \in FailedLookups : \E j \in Lookups : j < i /\ calls[j].op = calls[i].op
    /\ put_calls = <<>>
    /\ PutIndexes = {}

\* the policies on the pages the group lookups before call i returned
GroupPoliciesBefore(i) ==
    UNION {{calls[j].page[k].PolicyArn : k \in 1..Len(calls[j].page)}
           : j \in {g \in GroupCalls : g < i}}

\* the place of the group that call i asks about in the user's group list
GroupPlace(i) ==
    CHOOSE k \in 1..Len(configuration_item.configuration.groupList) :
        configuration_item.configuration.groupList[k] = calls[i].arg

\* C12: group policies are looked up for a User only, and every lookup is made
\* while the directly attached policies together with the policies all earlier
\* lookups returned do not hold every required policy: none when the direct
\* attachments suffice, none for a later group (or a later page) once the
\* requirement is complete.  The groups are asked about in listed order: the
\* first lookup is for the first group, and a group is asked about only after
\* each group listed before it was read to its last page.
C12_GroupsFetchedOnlyWhileMissing ==
    GroupCalls # {} =>
        /\ IsUser
        /\ "attachedManagedPolicies" \in DOMAIN configuration_item.configuration
        /\ \A i \in GroupCalls :
              /\ ~ (Required \subseteq DirectPolicies \cup GroupPoliciesBefore(i))
              /\ calls[i].arg \in Range(configuration_item.configuration.groupList)
              /\ \A j \in GroupCalls : j < i => GroupPlace(j) <= GroupPlace(i)
              /\ \A k \in 1..(GroupPlace(i) - 1) :
                    \E j \in GroupCalls :
                        /\ j < i
                        /\ GroupPlace(j) = k
                        /\ calls[j].ok
                        /\ ~ calls[j].more

\* a user of two groups whose first group completes the requirement: one
\* lookup, none for the second group, and the verdict is COMPLIANT
C12_Witness ==
    /\ Ended
    /\ Resolved
    /\ IsUser
    /\ Len(configuration_item.configuration.groupList) = 2
    /\ "attachedManagedPolicies" \in DOMAIN configuration_item.configuration
    /\ DirectPolicies # {}
    /\ ~ (Required \subseteq DirectPolicies)
    /\ Cardinality(GroupCalls) = 1
    /\ \A i \in GroupCalls : GroupPlace(i) = 1 /\ calls[i].ok
    /\ HasVerdict
    /\ Verdict.ComplianceType = "COMPLIANT"
    /\ put_calls # <<>>

\* the second group is asked about after the first was read to its last page
\* without completing the requirement
C12_SecondGroupWitness ==
    /\ Ended
    /\ \E i, j \in GroupCalls : i < j /\ GroupPlace(i) = 1 /\ GroupPlace(j) = 2
    /\ HasVerdict

ChangeKinds ==
    {"ConfigurationItemChangeNotification", "OversizedConfigurationItemChangeNotification"}

\* the invocation ran from the entry of lambda_handler and passed validation
WholeInvocation == Started /\ valid_rule_parameters # None

Succeeded == Ended /\ result.kind = "evaluations"

\* the prior-results lookup of clean_up_old_evaluations is due or was made
Reconciling == pc = "cleanup" \/ CleanupCalls # {}

\* C13: a change invocation for one principal that ends by returning its
\* evaluations made no prior-results lookup and called put_evaluations once,
\* with exactly one verdict: the one the decision logic computed for the
\* notified principal, which is also what the invocation returns.  The
\* prior-results lookup is made only when the decision result is empty or
\* absent, or is a list of evaluations.
C13_TargetedChangeSkipsReconciliation ==
    /\ (WholeInvocation /\ MessageType \in ChangeKinds /\ Succeeded) =>
          /\ CleanupCalls = {}
          /\ Len(put_calls) = 1
          /\ Len(put_calls[1]) = 1
          /\ result.value = put_calls[1]
          /\ put_calls[1][1].ComplianceResourceId = configuration_item.resourceId
          /\ put_calls[1][1].ComplianceResourceType = configuration_item.resourceType
          /\ IF HasVerdict THEN put_calls[1][1] = Verdict
             ELSE put_calls[1][1] = NotApplicableFor(configuration_item)
    /\ Reconciling =>
          \/ ~ Truthy(compliance_result)
          \/ compliance_result.tag = "list"

\* a targeted change for a user of a group ends with its one verdict submitted
C13_Witness ==
    /\ WholeInvocation
    /\ MessageType = "ConfigurationItemChangeNotification"
    /\ Succeeded
    /\ GroupCalls # {}
    /\ CleanupCalls = {}
    /\ Len(put_calls) = 1
    /\ Len(put_calls[1]) = 1
    /\ put_calls[1][1].ComplianceType = "NON_COMPLIANT"

\* a change notification whose decision result is a list is reconciled
C13_ListWitness ==
    /\ Started
    /\ MessageType = "ConfigurationItemChangeNotification"
    /\ Succeeded
    /\ CleanupCalls # {}
    /\ compliance_result # None
    /\ compliance_result.tag = "list"

====
